---- MODULE Spec2Model ----
(***************************************************************************)
(* Trademark-check pipeline of backend/checkers.py:                        *)
(*   check_ip_australia_trademark -> get_ipau_access_token ->              *)
(*   request_new_token, with the process-wide _cached_token/_token_lock.   *)
(*                                                                         *)
(* Each caller is one invocation of check_ip_australia_trademark running   *)
(* as an asyncio task.  Every `await` / `async with` is a point where the  *)
(* task may be suspended and another task may run.                         *)
(*                                                                         *)
(* request_new_token is a module-level function (line 132), so the names   *)
(* token_url, client_id and client_secret it reads (lines 135-139) are not *)
(* the locals of get_ipau_access_token: they resolve in the module scope,  *)
(* where nothing binds them.  Evaluating the arguments of client.post      *)
(* raises NameError before any request is sent.  Lines 147-167 and         *)
(* 287-452 are therefore never executed; the model follows the code as far *)
(* as it runs and records what the registry would have answered in         *)
(* `registry`.                                                             *)
(***************************************************************************)
EXTENDS Integers, Sequences, FiniteSets, TLC

\* ------------------------------------------------------------------ bounds
NumCallers == 2          \* concurrent invocations of the check
MaxIds == 2              \* ids in the quick-search answer of the registry
MaxTime == 1             \* clock ticks (time.time()) observed in a run

Callers == 1..NumCallers
Ids == 1..MaxIds
None == "None"
NoExc == <<>>          \* no exception

\* ------------------------------------------------- process environment
\* os.getenv(name) is truthy iff the variable is set and non-empty.
EnvFlags == {"IPAU_TOKEN_URL_TEST", "IPAU_TOKEN_URL_PROD", "IPAU_CLIENT_ID",
             "IPAU_CLIENT_SECRET", "IPAU_TM_BASE_URL_TEST",
             "IPAU_TM_BASE_URL_PROD"}

Environments == [IPAU_ENV : {"test", "production"}, set : SUBSET EnvFlags]

\* lines 106-112: token_url is the PROD value iff IPAU_ENV == "production"
token_url(e) ==
    IF e.IPAU_ENV = "production" THEN "IPAU_TOKEN_URL_PROD" \in e.set
                                 ELSE "IPAU_TOKEN_URL_TEST" \in e.set

\* line 114
client_id(e) == "IPAU_CLIENT_ID" \in e.set

\* line 115
client_secret(e) == "IPAU_CLIENT_SECRET" \in e.set

\* variant: the TEST variable is read whatever IPAU_ENV says
base_url_IgnoresEnv(e) == "IPAU_TM_BASE_URL_TEST" \in e.set

\* lines 256-261: base_url is the PROD value iff IPAU_ENV == "production"
base_url(e) ==
    IF e.IPAU_ENV = "production" THEN "IPAU_TM_BASE_URL_PROD" \in e.set
                                 ELSE "IPAU_TM_BASE_URL_TEST" \in e.set

ConfigComplete(e) == base_url(e) /\ token_url(e) /\ client_id(e) /\ client_secret(e)

\* ---------------------------------------------------- the remote registry
\* What the registry would answer to each request of the wire protocol.
TokenAnswers == {"ok", "http_error", "no_access_token", "network_error"}
SearchAnswers == {"http_error", "network_error", "non_json", "zero", "no_ids", "hits"}
DetailAnswers == {"exact", "similar", "no_words", "http_error", "network_error"}

\* trademarkIds of a "hits" answer is <<1, ..., n>>; detail[i] is the answer to
\* the detail request for id i.  A detail record is named after its words:
\* "exact"    words equal to the normalized query, ignoring case
\* "similar"  non-empty words that differ from it
\* "no_words" a record without any of the recognised words fields
NoDetail == <<>>

DetailLists == UNION {[1..n -> DetailAnswers] : n \in Ids}

\* An answer is only part of a scenario when the request before it succeeds.
Registries ==
    {[token |-> "n/a", search |-> "n/a", detail |-> NoDetail]}
    \cup {[token |-> t, search |-> "n/a", detail |-> NoDetail] :
            t \in TokenAnswers \ {"ok"}}
    \cup {[token |-> "ok", search |-> s, detail |-> NoDetail] :
            s \in SearchAnswers \ {"hits"}}
    \cup {[token |-> "ok", search |-> "hits", detail |-> d] :
            d \in DetailLists}

\* The token the registry hands out when it answers "ok".
RegistryToken == "tok"

\* ------------------------------------------------------- name resolution
\* Names bound at module level of checkers.py (imports, classes, functions,
\* lines 99-100).
ModuleNames == {"os", "re", "time", "asyncio", "httpx", "label_nice_class",
                "AvailabilityStatus", "TrademarkMatch", "CheckResult",
                "AggregatedResults", "normalize_query", "_cached_token",
                "_token_lock", "get_ipau_access_token", "request_new_token",
                "extract_nice_classes", "fetch_trademark_details",
                "check_ip_australia_trademark", "get_demo_results"}

\* Names request_new_token binds itself (assignment targets, lines 133-162).
\* It has no `global` statement, so _cached_token at line 162 is a local.
RequestNewTokenLocals == {"client", "response", "data", "access_token",
                          "expires_in", "_cached_token"}

\* Names read while the arguments of client.post are evaluated, in order
\* (lines 135, 138, 139).
PostArgNames == <<"token_url", "client_id", "client_secret">>

Resolves(name) == name \in RequestNewTokenLocals \cup ModuleNames

\* The first name of the call that does not resolve, or None.
UnboundPostName ==
    IF \E i \in DOMAIN PostArgNames : ~Resolves(PostArgNames[i])
    THEN PostArgNames[CHOOSE i \in DOMAIN PostArgNames :
                        /\ ~Resolves(PostArgNames[i])
                        /\ \A j \in 1..(i-1) : Resolves(PostArgNames[j])]
    ELSE None

\* ------------------------------------------------------------------ state
VARIABLES
    environ,        \* os.environ as the process sees it
    registry,       \* what the registry would answer
    now,            \* time.time()
    cached,         \* _cached_token (line 99): NoToken or [token, expiresAt]
    locked,         \* _token_lock._locked
    waiters,        \* _token_lock._waiters, FIFO
    pc,             \* position of each invocation
    exc,            \* exception in flight in each invocation
    token,          \* local `token` of check_ip_australia_trademark (line 285)
    result,         \* CheckResult returned by each invocation
    escaped,        \* exception that left check_ip_australia_trademark
    requests,       \* network requests sent so far
    tm,             \* a trademark detail record handed to the normalizer
    extracted,      \* extract_nice_classes(tm), once per interpreter process
    parsed          \* classes / class_labels the checker builds for tm

\* the variables of record normalization
normVars == <<tm, extracted, parsed>>

vars == <<environ, registry, now, cached, locked, waiters, pc, exc, token,
          result, escaped, requests, tm, extracted, parsed>>

\* ------------------------------------------------------------ CheckResult
\* lines 40-57: exact_matches / similar_matches default to [].
CheckResult(status, details, exact, similar) ==
    [status |-> status, details |-> details,
     exactMatches |-> exact, similarMatches |-> similar]

\* no CheckResult yet
NoResult == CheckResult("none", <<>>, <<>>, <<>>)

\* variant: the missing base URL is reported as an available name
MissingBaseUrlResult_Available ==
    CheckResult("available", <<"Missing IPAU_TM_BASE_URL_TEST/PROD in environment">>,
                <<>>, <<>>)

\* lines 263-270
MissingBaseUrlResult ==
    CheckResult("unknown", <<"Missing IPAU_TM_BASE_URL_TEST/PROD in environment">>,
                <<>>, <<>>)

\* lines 455-461
RequestFailedStatus == "unknown"

\* variant: a handler that reports the failure as "taken"
RequestFailedResult_Taken(err) ==
    CheckResult("taken", <<"Request failed">> \o err, <<>>, <<>>)

\* variant: a handler that reports the failure as "available"
RequestFailedResult_Available(err) ==
    CheckResult("available", <<"Request failed">> \o err, <<>>, <<>>)

RequestFailedResult(err) ==
    CheckResult(RequestFailedStatus, <<"Request failed">> \o err, <<>>, <<>>)

\* line 454: `except Exception` catches every exception the body raises
\* (ValueError and NameError are subclasses of Exception).
ExceptionClasses == {"ValueError", "NameError"}

\* variant: a handler that only catches ValueError
CaughtByExcept_ValueErrorOnly(err) == err[1] = "ValueError"

CaughtByExcept(err) == err[1] \in ExceptionClasses

\* ------------------------------------------------------------ token cache
\* line 125: _cached_token and time.time() * 1000 < _cached_token["expiresAt"]
NoToken == [token |-> None, expiresAt |-> 0]

CacheValid(c, t) == c # NoToken /\ t < c.expiresAt

\* variant: the client secret is not checked
TokenConfigError_NoSecretCheck(e) ==
    IF ~token_url(e) THEN <<"ValueError", "Missing IPAU_TOKEN_URL_TEST/PROD in environment">>
    ELSE IF ~client_id(e) THEN <<"ValueError", "Missing IPAU_CLIENT_ID in environment">>
    ELSE NoExc

\* lines 117-122: the first missing value raises ValueError.
TokenConfigError(e) ==
    IF ~token_url(e) THEN <<"ValueError", "Missing IPAU_TOKEN_URL_TEST/PROD in environment">>
    ELSE IF ~client_id(e) THEN <<"ValueError", "Missing IPAU_CLIENT_ID in environment">>
    ELSE IF ~client_secret(e) THEN <<"ValueError", "Missing IPAU_CLIENT_SECRET in environment">>
    ELSE NoExc

\* asyncio.Lock.acquire takes the lock at once only when it is free and
\* nobody is queued (line 129).
\* variant: acquire that does not look at the holder
LockFree_IgnoresHolder(l, w) == w = <<>>

LockFree(l, w) == ~l /\ w = <<>>

\* --------------------------------------------------- record normalization
\* Strings are sequences of characters.
MaxItems == 2            \* items in a classification list of a record

Digits == {"0", "1", "2", "3", "4", "5", "6", "7", "8", "9"}

DigitChars == <<"0", "1", "2", "3", "4", "5", "6", "7", "8", "9">>

DigitVal(ch) == (CHOOSE i \in DOMAIN DigitChars : DigitChars[i] = ch) - 1

\* str.strip(); the space is the only whitespace character of the alphabet
strip(s) ==
    LET kept == {i \in DOMAIN s : s[i] # " "}
    IN IF kept = {} THEN <<>>
       ELSE SubSeq(s, CHOOSE i \in kept : \A j \in kept : i <= j,
                      CHOOSE i \in kept : \A j \in kept : i >= j)

\* str.isdigit()
isdigit(s) == s # <<>> /\ \A i \in DOMAIN s : s[i] \in Digits

\* int(x) for a string of digits
RECURSIVE int(_)
int(s) == IF s = <<>> THEN 0
          ELSE 10 * int(SubSeq(s, 1, Len(s) - 1)) + DigitVal(s[Len(s)])

\* str(i) for a positive integer
RECURSIVE str(_)
str(i) == IF i < 10 THEN <<DigitChars[i + 1]>>
          ELSE str(i \div 10) \o <<DigitChars[(i % 10) + 1]>>

\* line 217 / line 385: the sort key of a code that is not all digits
NonNumericKey == 999

\* line 217 / line 385: key=lambda x: int(x) if x.isdigit() else 999
SortKey(x) == IF isdigit(x) THEN int(x) ELSE NonNumericKey

\* sorted() is stable: x goes behind every element whose key is not larger
RECURSIVE InsertByKey(_, _)
InsertByKey(sq, x) ==
    IF sq = <<>> THEN <<x>>
    ELSE IF SortKey(sq[Len(sq)]) <= SortKey(x) THEN Append(sq, x)
    ELSE Append(InsertByKey(SubSeq(sq, 1, Len(sq) - 1), x), sq[Len(sq)])

RECURSIVE StableSort(_)
StableSort(sq) ==
    IF sq = <<>> THEN <<>>
    ELSE InsertByKey(StableSort(SubSeq(sq, 1, Len(sq) - 1)), sq[Len(sq)])

\* The orders in which a set of strings can be iterated: the order follows
\* the string hashes, which differ from one interpreter process to the next.
IterationOrders(S) ==
    {p \in [1..Cardinality(S) -> S] : \A i, j \in DOMAIN p : p[i] = p[j] => i = j}

\* dict.get(key) of an absent key
Missing == <<"None">>

\* lines 202-206: the keys probed for a class number, in order
DictKeys == <<"number", "classNumber", "niceClass", "class", "classId">>

NoFields == [k \in {DictKeys[i] : i \in DOMAIN DictKeys} |-> Missing]

\* An item of a classification list: a scalar or a dict.
StrItem(v) == [kind |-> "str", value |-> v, fields |-> NoFields]

DictItem(f) == [kind |-> "dict", value |-> Missing, fields |-> f]

\* truth value of a string or None
Truthy(v) == v # Missing /\ v # <<>>

\* lines 200-209: a or b or ... is the first truthy operand, else the last one
ItemNumber(c) ==
    IF c.kind = "dict"
    THEN IF \E i \in 1..(Len(DictKeys) - 1) : Truthy(c.fields[DictKeys[i]])
         THEN c.fields[DictKeys[CHOOSE i \in 1..(Len(DictKeys) - 1) :
                           /\ Truthy(c.fields[DictKeys[i]])
                           /\ \A j \in 1..(i - 1) : ~Truthy(c.fields[DictKeys[j]])]]
         ELSE c.fields[DictKeys[Len(DictKeys)]]
    ELSE c.value

\* A field of a record: absent (or not a list), a list of items, or a dict
\* whose key `sub` holds a list of items.
Absent == [kind |-> "absent", sub |-> "", items |-> <<>>]

ListField(items) == [kind |-> "list", sub |-> "", items |-> items]

DictField(sub, items) == [kind |-> "dict", sub |-> sub, items |-> items]

NoRecord == [classes |-> Absent, niceClasses |-> Absent, classifications |-> Absent,
             goodsAndServices |-> Absent, classificationList |-> Absent]

IsList(f) == f.kind = "list"

\* isinstance(d.get(key), list) for a dict field d
SubList(f, key) == IF f.kind = "dict" /\ f.sub = key THEN f.items ELSE <<>>

\* lines 171-195: the candidates, collected shape by shape
Candidates(t) ==
    (IF IsList(t.classes) THEN t.classes.items ELSE <<>>)
    \o (IF IsList(t.niceClasses) THEN t.niceClasses.items ELSE <<>>)
    \o (IF IsList(t.classifications) THEN t.classifications.items ELSE <<>>)
    \o SubList(t.goodsAndServices, "classes")
    \o SubList(t.goodsAndServices, "niceClasses")
    \o (IF IsList(t.goodsAndServices) THEN t.goodsAndServices.items ELSE <<>>)
    \o (IF IsList(t.classificationList) THEN t.classificationList.items ELSE <<>>)

\* lines 198-214: the stripped, non-empty class numbers of the candidates
Numbers(t) ==
    LET cs == Candidates(t)
        Keep(c) == ItemNumber(c) # Missing /\ strip(ItemNumber(c)) # <<>>
        kept == SelectSeq(cs, Keep)
    IN [i \in DOMAIN kept |-> strip(ItemNumber(kept[i]))]

Range(sq) == {sq[i] : i \in DOMAIN sq}

\* lines 216-219: sorted(set(numbers), key=...); one result per iteration
\* order of the set.
extract_nice_classes(t) ==
    {StableSort(p) : p \in IterationOrders(Range(Numbers(t)))}

\* lines 378-383: gs.get("class") of every item of a goodsAndServices list;
\* an item that is not a dict has no .get (AttributeError).
ParseRaises(t) ==
    /\ IsList(t.goodsAndServices)
    /\ \E i \in DOMAIN t.goodsAndServices.items :
           t.goodsAndServices.items[i].kind # "dict"

\* lines 375-383: classes_set, the truthy "class" values, not stripped
ClassesSet(t) ==
    IF IsList(t.goodsAndServices)
    THEN {t.goodsAndServices.items[i].fields["class"] :
            i \in {j \in DOMAIN t.goodsAndServices.items :
                     Truthy(t.goodsAndServices.items[j].fields["class"])}}
    ELSE {}

\* line 385: classes = sorted(classes_set, key=...)
ParsedClasses(t) == {StableSort(p) : p \in IterationOrders(ClassesSet(t))}

\* nice_classes.py lines 5-51: the keys of NICE_CLASS_MAP are "1" .. "45"
NumNiceClasses == 45

NiceKeys == {str(i) : i \in 1..NumNiceClasses}

\* nice_classes.py lines 54-59: "<key> (<description>)" for a mapped key,
\* else the key; the description is represented by `described`.
label_nice_class(n) ==
    [key |-> strip(n), described |-> strip(n) \in NiceKeys]

\* ------------------------------------------------- records under test
RawCodes == {<<"7">>, <<" ", "7">>, <<"3", "5">>, <<"1", "0", "0", "0">>,
             <<"a", "b", "c">>, <<"x", "y", "z">>, <<>>}

ItemValues ==
    {StrItem(v) : v \in RawCodes}
    \cup {DictItem([NoFields EXCEPT !["class"] = <<"3", "5">>]),
          DictItem([NoFields EXCEPT !["class"] = <<"9">>]),
          DictItem([NoFields EXCEPT !["number"] = <<>>, !["classId"] = <<"9">>]),
          DictItem(NoFields)}

ItemLists == UNION {[1..n -> ItemValues] : n \in 0..MaxItems}

\* records with one classification field, in each recognised shape
DetailRecords ==
    UNION {{[NoRecord EXCEPT !.classes = ListField(l)],
            [NoRecord EXCEPT !.niceClasses = ListField(l)],
            [NoRecord EXCEPT !.classifications = ListField(l)],
            [NoRecord EXCEPT !.goodsAndServices = DictField("classes", l)],
            [NoRecord EXCEPT !.goodsAndServices = DictField("niceClasses", l)],
            [NoRecord EXCEPT !.goodsAndServices = ListField(l)],
            [NoRecord EXCEPT !.classificationList = ListField(l)]} :
           l \in ItemLists}

\* two interpreter processes
Runs == {1, 2}

NotRun == [done |-> FALSE, value |-> <<>>]

NotParsed == [done |-> FALSE, raised |-> FALSE, classes |-> <<>>, class_labels |-> <<>>]

\* ------------------------------------------------------------------- Init
Init ==
    /\ environ \in Environments
    /\ registry \in Registries
    /\ (~ConfigComplete(environ) => registry.token = "n/a")
    /\ (ConfigComplete(environ) => registry.token # "n/a")
    /\ now = 0
    /\ cached = NoToken
    /\ locked = FALSE
    /\ waiters = <<>>
    /\ pc = [c \in Callers |-> "idle"]
    /\ exc = [c \in Callers |-> NoExc]
    /\ token = [c \in Callers |-> None]
    /\ result = [c \in Callers |-> NoResult]
    /\ escaped = [c \in Callers |-> NoExc]
    /\ requests = {}
    /\ tm = NoRecord
    /\ extracted = [r \in Runs |-> NotRun]
    /\ parsed = NotParsed

\* ---------------------------------------------------------------- actions
\* time passes
Tick ==
    /\ now < MaxTime
    /\ now' = now + 1
    /\ UNCHANGED <<environ, registry, cached, locked, waiters, pc, exc, token,
                   result, escaped, requests>>
    /\ UNCHANGED normVars

\* variant: no early return when base_url is missing
Invoke_NoConfigCheck(c) ==
    /\ pc[c] = "idle"
    /\ pc' = [pc EXCEPT ![c] = "get_token"]
    /\ UNCHANGED <<environ, registry, now, cached, locked, waiters, exc, token,
                   result, escaped, requests>>
    /\ UNCHANGED normVars

\* check_ip_australia_trademark, lines 252-282: resolve base_url; without it
\* return the "unknown" result, otherwise enter the try block.
Invoke(c) ==
    /\ pc[c] = "idle"
    /\ IF ~base_url(environ)
       THEN /\ result' = [result EXCEPT ![c] = MissingBaseUrlResult]
            /\ pc' = [pc EXCEPT ![c] = "done"]
       ELSE /\ pc' = [pc EXCEPT ![c] = "get_token"]
            /\ UNCHANGED result
    /\ UNCHANGED <<environ, registry, now, cached, locked, waiters, exc, token,
                   escaped, requests>>
    /\ UNCHANGED normVars

\* get_ipau_access_token, lines 102-126: configuration check, then the
\* cached token when it is still valid, otherwise go for the lock.
GetToken(c) ==
    /\ pc[c] = "get_token"
    /\ IF TokenConfigError(environ) # NoExc
       THEN /\ exc' = [exc EXCEPT ![c] = TokenConfigError(environ)]
            /\ pc' = [pc EXCEPT ![c] = "except"]
            /\ UNCHANGED token
       ELSE IF CacheValid(cached, now)
       THEN /\ token' = [token EXCEPT ![c] = cached.token]
            /\ pc' = [pc EXCEPT ![c] = "quick_search"]
            /\ UNCHANGED exc
       ELSE /\ pc' = [pc EXCEPT ![c] = "acquire"]
            /\ UNCHANGED <<exc, token>>
    /\ UNCHANGED <<environ, registry, now, cached, locked, waiters, result,
                   escaped, requests>>
    /\ UNCHANGED normVars

\* line 129, `async with _token_lock`: take the lock or queue for it.
AcquireLock(c) ==
    /\ pc[c] = "acquire"
    /\ IF LockFree(locked, waiters)
       THEN /\ locked' = TRUE
            /\ pc' = [pc EXCEPT ![c] = "rnt_open"]
            /\ UNCHANGED waiters
       ELSE /\ waiters' = Append(waiters, c)
            /\ pc' = [pc EXCEPT ![c] = "lock_wait"]
            /\ UNCHANGED locked
    /\ UNCHANGED <<environ, registry, now, cached, exc, token, result, escaped,
                   requests>>
    /\ UNCHANGED normVars

\* line 129: the first queued waiter is woken by release() and takes the lock.
LockGranted(c) ==
    /\ pc[c] = "lock_wait"
    /\ ~locked
    /\ waiters # <<>>
    /\ Head(waiters) = c
    /\ locked' = TRUE
    /\ waiters' = Tail(waiters)
    /\ pc' = [pc EXCEPT ![c] = "rnt_open"]
    /\ UNCHANGED <<environ, registry, now, cached, exc, token, result, escaped,
                   requests>>
    /\ UNCHANGED normVars

\* request_new_token, line 133: `async with httpx.AsyncClient() as client`.
OpenClient(c) ==
    /\ pc[c] = "rnt_open"
    /\ pc' = [pc EXCEPT ![c] = "rnt_post"]
    /\ UNCHANGED <<environ, registry, now, cached, locked, waiters, exc, token,
                   result, escaped, requests>>
    /\ UNCHANGED normVars

\* request_new_token, lines 134-145: evaluate the arguments of client.post,
\* then send the request.  An unbound name raises NameError first.
PostToken(c) ==
    /\ pc[c] = "rnt_post"
    /\ IF UnboundPostName # None
       THEN /\ exc' = [exc EXCEPT ![c] = <<"NameError", UnboundPostName>>]
            /\ pc' = [pc EXCEPT ![c] = "rnt_close"]
            /\ UNCHANGED requests
       ELSE /\ requests' = requests \cup {[kind |-> "token", by |-> c]}
            /\ pc' = [pc EXCEPT ![c] = "rnt_response"]
            /\ UNCHANGED exc
    /\ UNCHANGED <<environ, registry, now, cached, locked, waiters, token,
                   result, escaped>>
    /\ UNCHANGED normVars

\* request_new_token, line 133: the client's __aexit__ runs and the
\* exception goes on to the caller.
CloseClient(c) ==
    /\ pc[c] = "rnt_close"
    /\ pc' = [pc EXCEPT ![c] = "release"]
    /\ UNCHANGED <<environ, registry, now, cached, locked, waiters, exc, token,
                   result, escaped, requests>>
    /\ UNCHANGED normVars

\* variant: leaving the block after an exception keeps the lock held
ReleaseLock_KeepsLocked(c) ==
    /\ pc[c] = "release"
    /\ pc' = [pc EXCEPT ![c] = "except"]
    /\ UNCHANGED <<environ, registry, now, cached, locked, waiters, exc, token,
                   result, escaped, requests>>
    /\ UNCHANGED normVars

\* lines 129-130: leaving `async with _token_lock` releases the lock, also
\* when the body raised; the exception reaches line 285.
ReleaseLock(c) ==
    /\ pc[c] = "release"
    /\ locked' = FALSE
    /\ pc' = [pc EXCEPT ![c] = "except"]
    /\ UNCHANGED <<environ, registry, now, cached, waiters, exc, token, result,
                   escaped, requests>>
    /\ UNCHANGED normVars

\* lines 454-461: the handler turns the exception into an "unknown" result.
HandleException(c) ==
    /\ pc[c] = "except"
    /\ IF CaughtByExcept(exc[c])
       THEN /\ result' = [result EXCEPT ![c] = RequestFailedResult(exc[c])]
            /\ UNCHANGED escaped
       ELSE /\ escaped' = [escaped EXCEPT ![c] = exc[c]]
            /\ UNCHANGED result
    /\ pc' = [pc EXCEPT ![c] = "done"]
    /\ UNCHANGED <<environ, registry, now, cached, locked, waiters, exc, token, requests>>
    /\ UNCHANGED normVars

Next ==
    \/ Tick
    \/ \E c \in Callers : Invoke(c)
    \/ \E c \in Callers : GetToken(c)
    \/ \E c \in Callers : AcquireLock(c)
    \/ \E c \in Callers : LockGranted(c)
    \/ \E c \in Callers : OpenClient(c)
    \/ \E c \in Callers : PostToken(c)
    \/ \E c \in Callers : CloseClient(c)
    \/ \E c \in Callers : ReleaseLock(c)
    \/ \E c \in Callers : HandleException(c)

Spec == Init /\ [][Next]_vars

\* ------------------------------------------- specification of progress
\* The steps of one invocation after it has been started.
Resume(c) ==
    \/ GetToken(c)
    \/ AcquireLock(c)
    \/ LockGranted(c)
    \/ OpenClient(c)
    \/ PostToken(c)
    \/ CloseClient(c)
    \/ ReleaseLock(c)
    \/ HandleException(c)

\* The scenarios of the token refresh: every configuration, every answer of
\* the token endpoint and of the quick search.  The answers to detail
\* requests are left out; they come after the lock has been given up.
InitFair == Init /\ registry.detail = NoDetail

\* The clock stands still: line 125 reads time.time() only when a token is
\* cached (`_cached_token and ...`), and `cached` is NoToken throughout.
NextFair == \E c \in Callers : Invoke(c) \/ Resume(c)

\* Each started invocation is a coroutine of the event loop that is ready to
\* run: the loop runs every ready coroutine, and a queued invocation is ready
\* as soon as release() has woken it.
FairSpec == InitFair /\ [][NextFair]_vars /\ \A c \in Callers : WF_vars(Resume(c))

\* ------------------------------------------ specification of normalization
\* The normalizer applied to a detail record; the checker is at rest.
InitNorm ==
    /\ environ = [IPAU_ENV |-> "test", set |-> {}]
    /\ registry = [token |-> "n/a", search |-> "n/a", detail |-> NoDetail]
    /\ now = 0
    /\ cached = NoToken
    /\ locked = FALSE
    /\ waiters = <<>>
    /\ pc = [c \in Callers |-> "idle"]
    /\ exc = [c \in Callers |-> NoExc]
    /\ token = [c \in Callers |-> None]
    /\ result = [c \in Callers |-> NoResult]
    /\ escaped = [c \in Callers |-> NoExc]
    /\ requests = {}
    /\ tm \in DetailRecords
    /\ extracted = [r \in Runs |-> NotRun]
    /\ parsed = NotParsed

checkVars == <<environ, registry, now, cached, locked, waiters, pc, exc, token,
               result, escaped, requests>>

\* extract_nice_classes(tm), lines 169-219, in process r
ExtractNiceClasses(r) ==
    /\ ~extracted[r].done
    /\ \E out \in extract_nice_classes(tm) :
           extracted' = [extracted EXCEPT ![r] = [done |-> TRUE, value |-> out]]
    /\ UNCHANGED <<tm, parsed>>
    /\ UNCHANGED checkVars

\* lines 374-386: classes and class_labels of the TrademarkMatch built for tm
ParseClasses ==
    /\ ~parsed.done
    /\ IF ParseRaises(tm)
       THEN parsed' = [NotParsed EXCEPT !.done = TRUE, !.raised = TRUE]
       ELSE \E cl \in ParsedClasses(tm) :
                parsed' = [done |-> TRUE, raised |-> FALSE, classes |-> cl,
                           class_labels |-> [i \in DOMAIN cl |-> label_nice_class(cl[i])]]
    /\ UNCHANGED <<tm, extracted>>
    /\ UNCHANGED checkVars

NextNorm ==
    \/ \E r \in Runs : ExtractNiceClasses(r)
    \/ ParseClasses

SpecNorm == InitNorm /\ [][NextNorm]_vars

\* ------------------------------------------------------------- type check
TypeOK ==
    /\ environ \in Environments
    /\ registry \in Registries
    /\ now \in 0..MaxTime
    /\ locked \in BOOLEAN
    /\ \A c \in Callers : pc[c] \in {"idle", "get_token", "acquire", "lock_wait",
                                     "rnt_open", "rnt_post", "rnt_close",
                                     "release", "except", "done"}
    /\ tm \in DetailRecords
    /\ \A r \in Runs : extracted[r].done \in BOOLEAN
    /\ parsed.done \in BOOLEAN /\ parsed.raised \in BOOLEAN

\* ------------------------------------------------------------ vocabulary
Statuses == {"available", "taken", "similar", "unknown"}

Done(c) == pc[c] = "done"

\* the caller's call of get_ipau_access_token (line 285) has ended
TokenCallEnded(c) == pc[c] \in {"quick_search", "except", "done"} /\ base_url(environ)

\* the caller is inside `async with _token_lock` (lines 129-130)
InRefresh(c) == pc[c] \in {"rnt_open", "rnt_post", "rnt_response", "rnt_close", "release"}

Sent(kind) == {r \in requests : r.kind = kind}

\* the registry would serve a token to a correctly configured process
TokenObtainable == ConfigComplete(environ) /\ registry.token = "ok"

InMatches(list, id) == \E k \in DOMAIN list : list[k].id = id

\* ------------------------------------------------------------------ C1
\* C1: check_ip_australia_trademark never raises to its caller: whatever the
\* configuration and whatever the registry would answer, no exception leaves
\* an invocation, and an invocation that has ended has returned a CheckResult
\* whose status is available, taken, similar or unknown.
C1_NeverRaises ==
    \A c \in Callers :
        /\ escaped[c] = NoExc
        /\ Done(c) => /\ result[c] # NoResult
                      /\ result[c].status \in Statuses

\* an invocation in which get_ipau_access_token raised has returned
C1_Witness ==
    \E c \in Callers :
        /\ Done(c)
        /\ exc[c] # NoExc
        /\ exc[c][1] = "NameError"
        /\ result[c].status = "unknown"

\* ------------------------------------------------------------------ C2
\* C2: with no valid cached token, a complete configuration and a registry
\* that serves tokens, two concurrent callers of get_ipau_access_token cause
\* at most one token request in total and both receive the token.
C2_OneRequestBothReceiveToken ==
    (TokenObtainable /\ \A c \in Callers : TokenCallEnded(c))
        => /\ Cardinality(Sent("token")) <= 1
           /\ \A c \in Callers : token[c] = RegistryToken

\* ------------------------------------------------------------------ C3
\* C3: once a token request against a registry that serves tokens has ended,
\* the process-wide cached token holds the served access_token (with its
\* expiry), so that later calls before the expiry are answered from the cache.
C3_CacheHoldsTokenAfterRefresh ==
    (TokenObtainable /\ \E c \in Callers : TokenCallEnded(c))
        => /\ cached # NoToken
           /\ cached.token = RegistryToken

\* ------------------------------------------------------------------ C4
\* C4: at every moment at most one caller is executing the token request:
\* request_new_token only runs while _token_lock is held, and no two callers
\* hold the lock at the same time.
C4_SingleFlight ==
    /\ Cardinality({c \in Callers : InRefresh(c)}) <= 1
    /\ \A c \in Callers : InRefresh(c) => locked

\* one caller is inside request_new_token while another one queues on the lock
C4_Witness ==
    \E c, d \in Callers :
        /\ c # d
        /\ pc[c] = "rnt_post"
        /\ pc[d] = "lock_wait"
        /\ locked

\* --------------------------------------------------------------- C6..C10
\* the registry would answer the quick search with count > 0 and ids
SearchHits == TokenObtainable /\ registry.search = "hits"

\* every detail request would be answered with a record
AllFetched == \A i \in DOMAIN registry.detail :
                  registry.detail[i] \in {"exact", "similar", "no_words"}

NoMatches(r) == r.exactMatches = <<>> /\ r.similarMatches = <<>>

\* ------------------------------------------------------------------ C6
\* C6: detail-fetch failures are isolated per id: when one detail fetch fails
\* with a network error and another yields words equal to the query, the
\* result is taken, the successful record is in exactMatches and the failed
\* id is in neither list.
C6_PartialFailureIsolated ==
    \A c \in Callers :
        (Done(c) /\ SearchHits) =>
            \A i, j \in DOMAIN registry.detail :
                (registry.detail[i] = "network_error" /\ registry.detail[j] = "exact")
                    => /\ result[c].status = "taken"
                       /\ InMatches(result[c].exactMatches, j)
                       /\ ~InMatches(result[c].exactMatches, i)
                       /\ ~InMatches(result[c].similarMatches, i)

\* ------------------------------------------------------------------ C7
\* C7: when the quick search answers with count == 0 or without a usable id
\* list, the check returns available with empty exactMatches and
\* similarMatches and sends no detail request.
C7_ZeroResultsAvailable ==
    \A c \in Callers :
        (Done(c) /\ TokenObtainable /\ registry.search \in {"zero", "no_ids"})
            => /\ result[c].status = "available"
               /\ NoMatches(result[c])
               /\ Sent("detail") = {}

\* ------------------------------------------------------------------ C8
\* C8: with a complete configuration, an obtainable token and a quick search
\* with ids, a fetched record whose words equal the query makes the result
\* taken with that record in exactMatches; when every fetched record is such
\* a record, similarMatches is empty.
C8_ExactMatchTaken ==
    \A c \in Callers :
        (Done(c) /\ SearchHits /\ AllFetched) =>
            /\ \A j \in DOMAIN registry.detail :
                   registry.detail[j] = "exact"
                       => /\ result[c].status = "taken"
                          /\ InMatches(result[c].exactMatches, j)
            /\ (\A j \in DOMAIN registry.detail : registry.detail[j] = "exact")
                   => result[c].similarMatches = <<>>

\* ------------------------------------------------------------------ C9
\* C9: with a complete configuration, an obtainable token and a quick search
\* whose records all have non-empty words different from the query, the
\* result is similar, exactMatches is empty and every record is in
\* similarMatches.
C9_SimilarOnly ==
    \A c \in Callers :
        (/\ Done(c)
         /\ SearchHits
         /\ \A j \in DOMAIN registry.detail : registry.detail[j] = "similar")
            => /\ result[c].status = "similar"
               /\ result[c].exactMatches = <<>>
               /\ \A j \in DOMAIN registry.detail :
                      InMatches(result[c].similarMatches, j)

BaseUrlVar == IF environ.IPAU_ENV = "production" THEN "IPAU_TM_BASE_URL_PROD"
                                                 ELSE "IPAU_TM_BASE_URL_TEST"

BaseUrlUnset == BaseUrlVar \notin environ.set

\* line 327: trademark_ids[:5]
TopIds == 5

Min(a, b) == IF a <= b THEN a ELSE b

MatchIds(list) == [k \in DOMAIN list |-> list[k].id]

\* the ids, in the order of trademarkIds, whose detail answer is `kind`
IdsOfKind(kind) ==
    LET n == Len(registry.detail)
        IsKind(i) == registry.detail[i] = kind
    IN SelectSeq([i \in 1..n |-> i], IsKind)

\* some detail request would be answered with a record that has words
SomeWords == \E i \in DOMAIN registry.detail :
                 registry.detail[i] \in {"exact", "similar"}

\* ------------------------------------------------------------------ C11
\* C11: when the base URL selected by IPAU_ENV is unset, every invocation
\* returns unknown, no request of any kind is sent, and the token lock is
\* neither taken nor queued for.
C11_NoBaseUrlNoNetwork ==
    BaseUrlUnset =>
        /\ requests = {}
        /\ ~locked
        /\ waiters = <<>>
        /\ \A c \in Callers :
               /\ pc[c] \in {"idle", "done"}
               /\ Done(c) => /\ result[c].status = "unknown"
                             /\ NoMatches(result[c])

\* an invocation returned without a base URL although the token
\* configuration was complete
C11_Witness ==
    \E c \in Callers :
        /\ Done(c)
        /\ BaseUrlUnset
        /\ token_url(environ) /\ client_id(environ) /\ client_secret(environ)
        /\ result[c] = MissingBaseUrlResult

\* ------------------------------------------------------------------ C12
\* C12: whatever the order in which the detail fetches complete, exactMatches
\* and similarMatches list their records in the order of the ids in the
\* top-5 slice of trademarkIds.
C12_MatchesInIdOrder ==
    \A c \in Callers :
        (Done(c) /\ SearchHits /\ AllFetched /\ SomeWords)
            => /\ MatchIds(result[c].exactMatches) = IdsOfKind("exact")
               /\ MatchIds(result[c].similarMatches) = IdsOfKind("similar")

\* ------------------------------------------------------------------ C13
NoDuplicates(sq) == \A i, j \in DOMAIN sq : sq[i] = sq[j] => i = j

\* numeric codes ascending, and no numeric code behind a non-numeric one
NumericFirstAscending(sq) ==
    \A i, j \in DOMAIN sq :
        i < j => /\ (isdigit(sq[i]) /\ isdigit(sq[j])) => int(sq[i]) <= int(sq[j])
                 /\ ~isdigit(sq[i]) => ~isdigit(sq[j])

\* C13: for every record extract_nice_classes returns the trimmed non-empty
\* class codes without duplicates, the numeric codes first in ascending
\* numeric order and every non-numeric code after all numeric codes, and two
\* runs on the same record return the same order.
C13_SortedDedupDeterministic ==
    \A r \in Runs :
        extracted[r].done =>
            /\ NoDuplicates(extracted[r].value)
            /\ Range(extracted[r].value) = Range(Numbers(tm))
            /\ NumericFirstAscending(extracted[r].value)
            /\ \A q \in Runs : extracted[q].done => extracted[q].value = extracted[r].value

\* ------------------------------------------------------------------ C14
\* C14: an invocation launches exactly one detail fetch for each of the first
\* min(5, n) ids of trademarkIds and no other, and classifies only after all
\* of them have completed.
C14_TopFiveFetchedOnce ==
    \A c \in Callers :
        (Done(c) /\ SearchHits) =>
            LET mine == {r \in Sent("detail") : r.by = c}
                top == 1..Min(TopIds, Len(registry.detail))
            IN /\ Cardinality(mine) = Cardinality(top)
               /\ {r.id : r \in mine} = top

\* ------------------------------------------------------------------ C15
\* C15: when the token cannot be obtained (token URL, client id or client
\* secret missing, or a token endpoint that fails), the check returns unknown
\* with details that carry the failure, and sends neither the quick search
\* nor a detail fetch; a missing configuration value is reported as such and
\* fails before any request is sent.
C15_TokenFailureUnknown ==
    \A c \in Callers :
        (Done(c) /\ ~BaseUrlUnset /\ ~TokenObtainable) =>
            LET d == result[c].details
                configMissing == ~(token_url(environ) /\ client_id(environ)
                                     /\ client_secret(environ))
            IN /\ result[c].status = "unknown"
               /\ NoMatches(result[c])
               /\ Len(d) = 3
               /\ d[1] = "Request failed"
               /\ Sent("search") = {}
               /\ Sent("detail") = {}
               /\ configMissing =>
                      /\ requests = {}
                      /\ d[2] = "ValueError"
                      /\ d[3] = "Missing IPAU_TOKEN_URL_TEST/PROD in environment"
                             => ~token_url(environ)
                      /\ d[3] = "Missing IPAU_CLIENT_ID in environment"
                             => ~client_id(environ)
                      /\ d[3] = "Missing IPAU_CLIENT_SECRET in environment"
                             => ~client_secret(environ)

\* an invocation returned after the missing client secret was detected
C15_Witness ==
    \E c \in Callers :
        /\ Done(c)
        /\ ~BaseUrlUnset
        /\ token_url(environ) /\ client_id(environ) /\ ~client_secret(environ)
        /\ result[c].details =
               <<"Request failed", "ValueError", "Missing IPAU_CLIENT_SECRET in environment">>

\* ------------------------------------------------------------------ C16
\* C16: an invocation moves through Start, ConfigCheck, Authenticating,
\* Searching, NoResults or DetailFetching, Classifying, Done in this order; a
\* phase is only entered when the one before it succeeded, an error exit
\* leads to Done with status unknown and nowhere else.
Phase(c) ==
    CASE pc[c] = "idle" -> "Start"
      [] pc[c] \in {"get_token", "acquire", "lock_wait", "rnt_open", "rnt_post",
                    "rnt_response", "rnt_close", "release"} -> "Authenticating"
      [] pc[c] = "quick_search" -> "Searching"
      [] pc[c] = "except" -> "ErrorExit"
      [] pc[c] = "done" -> "Done"

PhaseSuccessors(p) ==
    CASE p = "Start" -> {"Authenticating", "Done"}
      [] p = "Authenticating" -> {"Searching", "ErrorExit"}
      [] p = "Searching" -> {"NoResults", "DetailFetching", "ErrorExit"}
      [] p = "ErrorExit" -> {"Done"}
      [] OTHER -> {}

PhaseInvariant ==
    \A c \in Callers :
        LET p == Phase(c)
        IN /\ p \in {"Authenticating", "Searching", "ErrorExit"} => ~BaseUrlUnset
           /\ p = "Searching" => token[c] # None
           /\ p = "ErrorExit" => exc[c] # NoExc
           /\ (Done(c) /\ (exc[c] # NoExc \/ BaseUrlUnset))
                  => result[c].status = "unknown"

\* an invocation that moves stays in its phase or enters a successor of it
PhaseStep ==
    \A c \in Callers :
        pc[c]' # pc[c] =>
            LET p == Phase(c)
                q == Phase(c)'
            IN q = p \/ q \in PhaseSuccessors(p)

C17_FallbackPlaceholders ==
    \A c \in Callers :
        (/\ Done(c)
         /\ SearchHits
         /\ \A i \in DOMAIN registry.detail :
                registry.detail[i] \in {"no_words", "http_error"})
            => /\ result[c].status = "similar"
               /\ result[c].exactMatches = <<>>
               /\ MatchIds(result[c].similarMatches)
                      = [i \in 1..Min(TopIds, Len(registry.detail)) |-> i]

\* ------------------------------------------------------------------ C18
\* C18: on the normal classification path every fetched record with words
\* equal to the query is in exactMatches and not in similarMatches, every
\* record with other non-empty words is in similarMatches and not in
\* exactMatches, and a record without words or a failed fetch is in neither.
C18_Partition ==
    \A c \in Callers :
        (/\ Done(c)
         /\ SearchHits
         /\ SomeWords
         /\ \A i \in DOMAIN registry.detail : registry.detail[i] # "network_error")
            => \A i \in DOMAIN registry.detail :
                   /\ InMatches(result[c].exactMatches, i)
                          <=> registry.detail[i] = "exact"
                   /\ InMatches(result[c].similarMatches, i)
                          <=> registry.detail[i] = "similar"

C20_ClassesEqualNormalizer ==
    \A r \in Runs :
        (parsed.done /\ ~parsed.raised /\ extracted[r].done) =>
            /\ parsed.classes = extracted[r].value
            /\ parsed.class_labels =
                   [i \in DOMAIN extracted[r].value |->
                        label_nice_class(extracted[r].value[i])]

\* ------------------------------------------------------------------ C21
\* the registry would answer the quick search with a success response whose
\* count is 0 or whose id list is empty (lines 310-324)
SearchEmpty == registry.search \in {"zero", "no_ids"}

\* the quick search would fail: not a success response, no response at all,
\* or a body that is not JSON (lines 289-308)
SearchFails == registry.search \in {"http_error", "network_error", "non_json"}

\* some detail request of the scenario would fail (lines 222-249)
DetailFails ==
    \E i \in DOMAIN registry.detail :
        registry.detail[i] \in {"http_error", "network_error"}

\* C21: a check returns status available only when the base URL is configured,
\* a token was obtained and the quick search succeeded with count 0 or an
\* empty id list; a configuration, token or search failure yields unknown,
\* and a detail-fetch failure never yields available.
C21_FailureNeverAvailable ==
    \A c \in Callers :
        Done(c) =>
            /\ result[c].status = "available"
                   => (~BaseUrlUnset /\ token[c] # None /\ SearchEmpty)
            /\ (BaseUrlUnset \/ exc[c] # NoExc \/ ~TokenObtainable \/ SearchFails)
                   => result[c].status = "unknown"
            /\ DetailFails => result[c].status # "available"

\* every invocation has returned, with a base URL, where the token endpoint
\* would refuse the token
C21_Witness ==
    /\ ~BaseUrlUnset
    /\ ConfigComplete(environ)
    /\ registry.token \in {"http_error", "no_access_token", "network_error"}
    /\ \A c \in Callers : Done(c) /\ result[c].status = "unknown"

\* ------------------------------------------------------------------ C22
\* C22: the token lock is held only by an invocation inside the refresh, an
\* invocation that holds it gives it up when request_new_token ends, every
\* invocation queued for the lock eventually takes it, and every started
\* invocation eventually returns a CheckResult.
C22_LockReleasedAllReturn ==
    /\ [](locked => \E c \in Callers : InRefresh(c))
    /\ \A c \in Callers : InRefresh(c) ~> (pc[c] = "except" /\ ~InRefresh(c))
    /\ \A c \in Callers : (pc[c] = "lock_wait") ~> (pc[c] = "rnt_open")
    /\ \A c \in Callers :
           (pc[c] # "idle") ~> (Done(c) /\ result[c] # NoResult /\ escaped[c] = NoExc)

\* a refresh has failed and released the lock while another invocation is
\* queued for it
C22_Witness ==
    \E c, d \in Callers :
        /\ pc[c] = "except"
        /\ exc[c] # NoExc
        /\ exc[c][1] = "NameError"
        /\ ~locked
        /\ pc[d] = "lock_wait"
        /\ Head(waiters) = d

====
